---------------------------- MODULE Spec2Model ----------------------------
(***************************************************************************)
(* A model of CacheClient (src/index.ts): the cache-aside protocol of      *)
(* getValueOrRetrieve over a Redis-protocol store, its key derivation and  *)
(* its TTL arithmetic.                                                     *)
(*                                                                         *)
(* A JavaScript string is a sequence of one-character strings, so that     *)
(* concatenation, JSON.stringify and JSON.parse are computed and not       *)
(* assumed.  A JavaScript value is a tagged record.                         *)
(***************************************************************************)
EXTENDS Integers, Sequences, FiniteSets, TLC

(***************************************************************************)
(* JavaScript values                                                       *)
(***************************************************************************)
\* Each type keeps its payload in a field of its own.
Undefined == [t |-> "undefined"]
Null      == [t |-> "null"]
Bool(b)   == [t |-> "bool", b |-> b]
Num(n)    == [t |-> "num", n |-> n]
Str(s)    == [t |-> "str", s |-> s]
Arr(a)    == [t |-> "arr", a |-> a]
Obj(m)    == [t |-> "obj", o |-> m]

\* Milliseconds conversion factors
SECONDS == 1000
MINUTES == 60 * SECONDS
HOURS   == 60 * MINUTES
DAYS    == 24 * HOURS

\* The string that represents a cached null: "%__NULL__%"
NULL_SYMBOL == <<"%", "_", "_", "N", "U", "L", "L", "_", "_", "%">>

(***************************************************************************)
(* Strings                                                                 *)
(***************************************************************************)
QUOTE     == "\""
BACKSLASH == "\\"
Digits    == <<"0", "1", "2", "3", "4", "5", "6", "7", "8", "9">>

RECURSIVE NatToString(_)
NatToString(n) ==
    IF n < 10 THEN <<Digits[n + 1]>>
    ELSE NatToString(n \div 10) \o <<Digits[(n % 10) + 1]>>

\* Number.prototype.toString for an integer
NumberToString(n) == IF n < 0 THEN <<"-">> \o NatToString(-n) ELSE NatToString(n)

RECURSIVE Flatten(_)
Flatten(ss) == IF ss = <<>> THEN <<>> ELSE Head(ss) \o Flatten(Tail(ss))

\* A string left without quotes
JsonQuoteBare(s) == s

\* JSON.stringify's quoting of a string: the quote and the backslash are escaped
JsonQuote(s) ==
    <<QUOTE>>
    \o Flatten([i \in 1..Len(s) |->
                  IF s[i] = QUOTE \/ s[i] = BACKSLASH THEN <<BACKSLASH, s[i]>>
                  ELSE <<s[i]>>])
    \o <<QUOTE>>

\* String(v), as a template literal `${v}` prints a primitive
TemplateString(v) ==
    CASE v.t = "str"  -> v.s
      [] v.t = "num"  -> NumberToString(v.n)
      [] v.t = "bool" -> IF v.b THEN <<"t", "r", "u", "e">> ELSE <<"f", "a", "l", "s", "e">>
      [] v.t = "null" -> <<"n", "u", "l", "l">>
      [] OTHER        -> <<"u", "n", "d", "e", "f", "i", "n", "e", "d">>


(***************************************************************************)
(* JSON.stringify and JSON.parse, for the values and the characters of     *)
(* the model: integers, strings with the escapes of the quote, the         *)
(* backslash and \n \t \r \f, arrays, objects, and the space as the only   *)
(* white space.                                                            *)
(***************************************************************************)
RECURSIVE JsonStringify(_)
JsonStringify(v) ==
    CASE v.t = "null" -> <<"n", "u", "l", "l">>
      [] v.t = "bool" -> TemplateString(v)
      [] v.t = "num"  -> NumberToString(v.n)
      [] v.t = "str"  -> JsonQuote(v.s)
      [] v.t = "arr"  ->
           <<"[">>
           \o Flatten([i \in 1..Len(v.a) |->
                         (IF i = 1 THEN <<>> ELSE <<",">>) \o JsonStringify(v.a[i])])
           \o <<"]">>
      [] v.t = "obj"  ->
           <<"{">>
           \o Flatten([i \in 1..Len(v.o) |->
                         (IF i = 1 THEN <<>> ELSE <<",">>)
                         \o JsonQuote(v.o[i][1]) \o <<":">> \o JsonStringify(v.o[i][2])])
           \o <<"}">>

ParseFail == [ok |-> FALSE, v |-> Undefined, next |-> 0]
ParseOk(v, next) == [ok |-> TRUE, v |-> v, next |-> next]

StartsWithAt(s, i, lit) ==
    /\ i + Len(lit) - 1 <= Len(s)
    /\ SubSeq(s, i, i + Len(lit) - 1) = lit

IsDigit(c) == \E d \in 1..10 : Digits[d] = c
DigitValue(c) == (CHOOSE d \in 1..10 : Digits[d] = c) - 1

RECURSIVE SkipWs(_, _)
SkipWs(s, i) == IF i <= Len(s) /\ s[i] = " " THEN SkipWs(s, i + 1) ELSE i

RECURSIVE DigitsEnd(_, _)
DigitsEnd(s, i) == IF i <= Len(s) /\ IsDigit(s[i]) THEN DigitsEnd(s, i + 1) ELSE i

RECURSIVE DigitsValue(_)
DigitsValue(ds) ==
    IF ds = <<>> THEN 0
    ELSE 10 * DigitsValue(SubSeq(ds, 1, Len(ds) - 1)) + DigitValue(ds[Len(ds)])

\* -? (0 | [1-9][0-9]*) starting at i
ParseNumberAt(s, i) ==
    LET neg   == i <= Len(s) /\ s[i] = "-"
        first == IF neg THEN i + 1 ELSE i
        last  == DigitsEnd(s, first)
    IN  IF last = first THEN ParseFail
        ELSE IF s[first] = "0" /\ last > first + 1 THEN ParseOk(Num(0), first + 1)
        ELSE LET n == DigitsValue(SubSeq(s, first, last - 1))
             IN  ParseOk(Num(IF neg THEN -n ELSE n), last)

Unescape(c) ==
    CASE c = "n" -> "\n"
      [] c = "t" -> "\t"
      [] c = "r" -> "\r"
      [] c = "f" -> "\f"
      [] OTHER   -> c

\* The characters after an opening quote, up to the closing one
RECURSIVE ParseStringAt(_, _, _)
ParseStringAt(s, i, acc) ==
    IF i > Len(s) THEN ParseFail
    ELSE IF s[i] = QUOTE THEN ParseOk(Str(acc), i + 1)
    ELSE IF s[i] = BACKSLASH
         THEN IF i + 1 <= Len(s) /\ s[i + 1] \in {QUOTE, BACKSLASH, "/", "n", "t", "r", "f"}
              THEN ParseStringAt(s, i + 2, Append(acc, Unescape(s[i + 1])))
              ELSE ParseFail
    ELSE ParseStringAt(s, i + 1, Append(acc, s[i]))

RECURSIVE ParseValueAt(_, _)
RECURSIVE ParseElementsAt(_, _, _)
RECURSIVE ParseMembersAt(_, _, _)

\* A JSON value starting at i (after white space); next is the place after it
ParseValueAt(s, i0) ==
    LET i == SkipWs(s, i0)
    IN  IF i > Len(s) THEN ParseFail
        ELSE IF StartsWithAt(s, i, <<"t", "r", "u", "e">>) THEN ParseOk(Bool(TRUE), i + 4)
        ELSE IF StartsWithAt(s, i, <<"f", "a", "l", "s", "e">>) THEN ParseOk(Bool(FALSE), i + 5)
        ELSE IF StartsWithAt(s, i, <<"n", "u", "l", "l">>) THEN ParseOk(Null, i + 4)
        ELSE IF s[i] = QUOTE THEN ParseStringAt(s, i + 1, <<>>)
        ELSE IF s[i] = "[" THEN
             LET j == SkipWs(s, i + 1)
             IN  IF j <= Len(s) /\ s[j] = "]" THEN ParseOk(Arr(<<>>), j + 1)
                 ELSE ParseElementsAt(s, j, <<>>)
        ELSE IF s[i] = "{" THEN
             LET j == SkipWs(s, i + 1)
             IN  IF j <= Len(s) /\ s[j] = "}" THEN ParseOk(Obj(<<>>), j + 1)
                 ELSE ParseMembersAt(s, j, <<>>)
        ELSE ParseNumberAt(s, i)

\* value ("," value)* "]"
ParseElementsAt(s, i, acc) ==
    LET e == ParseValueAt(s, i)
        j == SkipWs(s, e.next)
    IN  IF ~e.ok \/ j > Len(s) THEN ParseFail
        ELSE IF s[j] = "]" THEN ParseOk(Arr(Append(acc, e.v)), j + 1)
        ELSE IF s[j] = "," THEN ParseElementsAt(s, j + 1, Append(acc, e.v))
        ELSE ParseFail

\* string ":" value ("," string ":" value)* "}"
ParseMembersAt(s, i0, acc) ==
    LET i == SkipWs(s, i0)
        k == IF i <= Len(s) /\ s[i] = QUOTE THEN ParseStringAt(s, i + 1, <<>>) ELSE ParseFail
        c == SkipWs(s, k.next)
        e == IF k.ok /\ c <= Len(s) /\ s[c] = ":" THEN ParseValueAt(s, c + 1) ELSE ParseFail
        j == SkipWs(s, e.next)
    IN  IF ~e.ok \/ j > Len(s) THEN ParseFail
        ELSE IF s[j] = "}" THEN ParseOk(Obj(Append(acc, <<k.v.s, e.v>>)), j + 1)
        ELSE IF s[j] = "," THEN ParseMembersAt(s, j + 1, Append(acc, <<k.v.s, e.v>>))
        ELSE ParseFail

\* JSON.parse(s): [ok |-> TRUE, v] or, for a SyntaxError, [ok |-> FALSE]
JsonParse(s) ==
    LET r == ParseValueAt(s, 1)
    IN  IF r.ok /\ SkipWs(s, r.next) = Len(s) + 1
        THEN [ok |-> TRUE, v |-> r.v]
        ELSE [ok |-> FALSE, v |-> Undefined]


(***************************************************************************)
(* JavaScript truthiness and exact division                                *)
(***************************************************************************)
Truthy(v) ==
    CASE v.t = "undefined" -> FALSE
      [] v.t = "null"      -> FALSE
      [] v.t = "bool"      -> v.b
      [] v.t = "num"       -> v.n # 0
      [] v.t = "str"       -> v.s # <<>>
      [] OTHER             -> TRUE

Min(a, b) == IF a < b THEN a ELSE b

RECURSIVE Gcd(_, _)
Gcd(a, b) == IF b = 0 THEN a ELSE Gcd(b, a % b)

\* a / b for a >= 0 and b > 0, as the fraction in lowest terms
Divide(a, b) ==
    LET g == Gcd(a, b)
    IN  [num |-> a \div g, den |-> b \div g]

IsInteger(q) == q.den = 1

(***************************************************************************)
(* The client: the constructor's defaults, the TTL arithmetic, the key     *)
(***************************************************************************)
\* A duration of the form {value, unit}
Duration(value, unit) == [t |-> "duration", value |-> value, unit |-> unit]

\* getValueOrRetrieveDefaultOptions as given to CacheClient.create
DefaultOptions(cacheDurationInMs, keyPrefix) ==
    [cacheDurationInMs |-> cacheDurationInMs, keyPrefix |-> keyPrefix]

\* The fields the constructor sets from getValueOrRetrieveDefaultOptions
Constructor(options) ==
    [getValueOrRetrieveCacheDurationInMs |->
        IF Truthy(options.cacheDurationInMs) THEN options.cacheDurationInMs.n
        ELSE 5 * MINUTES,
     getValueOrRetrieveKeyPrefix |->
        IF Truthy(options.keyPrefix) THEN options.keyPrefix.s
        ELSE <<>>,
     connected |-> FALSE]

\* CacheClient.create: the constructed client, connected
create(options) == [Constructor(options) EXCEPT !.connected = TRUE]

\* cacheTimeInMS with the MINUTES case multiplying by SECONDS
cacheTimeInMSMinutesAsSeconds(self, duration) ==
    IF ~Truthy(duration) THEN self.getValueOrRetrieveCacheDurationInMs
    ELSE IF duration.t = "num" THEN duration.n
    ELSE CASE duration.unit = "MILLISECONDS" -> duration.value
           [] duration.unit = "SECONDS"      -> SECONDS * duration.value
           [] duration.unit = "MINUTES"      -> SECONDS * duration.value
           [] duration.unit = "HOURS"        -> HOURS * duration.value
           [] duration.unit = "DAYS"         -> HOURS * duration.value

cacheTimeInMS(self, duration) ==
    IF ~Truthy(duration) THEN self.getValueOrRetrieveCacheDurationInMs
    ELSE IF duration.t = "num" THEN duration.n
    ELSE CASE duration.unit = "MILLISECONDS" -> duration.value
           [] duration.unit = "SECONDS"      -> SECONDS * duration.value
           [] duration.unit = "MINUTES"      -> MINUTES * duration.value
           [] duration.unit = "HOURS"        -> HOURS * duration.value
           [] duration.unit = "DAYS"         -> HOURS * duration.value

\* const expirationTime = this.cacheTimeInMS(options?.duration) / SECONDS
expirationTime(self, options) == Divide(cacheTimeInMS(self, options.duration), SECONDS)

RECURSIVE AppendElements(_, _)
AppendElements(key, input) ==
    IF input = <<>> THEN key
    ELSE AppendElements(key \o <<"_">> \o TemplateString(Head(input)), Tail(input))

\* computeCacheKey starting from the empty string instead of the prefix
computeCacheKeyWithoutPrefix(self, input) ==
    IF input.t = "str" THEN input.s
    ELSE AppendElements(<<>>, input.a)

computeCacheKey(self, input) ==
    IF input.t = "str" THEN self.getValueOrRetrieveKeyPrefix \o input.s
    ELSE AppendElements(self.getValueOrRetrieveKeyPrefix, input.a)


(***************************************************************************)
(* The store, as the commands the client sends see it.  An entry is the    *)
(* string at a key (Null: no such key) and the seconds it still has to     *)
(* live (0: no expiry).                                                    *)
(***************************************************************************)
Absent == [val |-> Null, ttl |-> 0]

\* GET key
RedisGet(st, k) == st[k].val

\* SET key value EX 1
RedisSetShortLived(st, k, s) == [st EXCEPT ![k] = [val |-> Str(s), ttl |-> 1]]

\* SET key value NX: no write when the key exists
RedisSetIfAbsent(st, k, s) ==
    IF st[k].val = Null THEN [st EXCEPT ![k] = [val |-> Str(s), ttl |-> 0]] ELSE st

\* SET key value: the value replaces the entry and its TTL
RedisSet(st, k, s) == [st EXCEPT ![k] = [val |-> Str(s), ttl |-> 0]]

\* The server accepts a TTL argument that is a positive integer
ValidExpireArg(secs) == IsInteger(secs) /\ secs.num > 0

\* SET key value with the EX argument left out
RedisSetExPersistent(st, k, s, secs) ==
    IF ValidExpireArg(secs)
    THEN [ok |-> TRUE, st |-> [st EXCEPT ![k] = [val |-> Str(s), ttl |-> 0]]]
    ELSE [ok |-> FALSE, st |-> st]

\* SET key value EX seconds: an error reply, and no write, for a bad argument
RedisSetEx(st, k, s, secs) ==
    IF ValidExpireArg(secs)
    THEN [ok |-> TRUE, st |-> [st EXCEPT ![k] = [val |-> Str(s), ttl |-> secs.num]]]
    ELSE [ok |-> FALSE, st |-> st]

\* EXPIRE key seconds answered without changing the TTL
RedisExpireNoEffect(st, k, secs) == [ok |-> IsInteger(secs), st |-> st]

\* EXPIRE key seconds: an error reply for a fraction; zero seconds delete the key
RedisExpire(st, k, secs) ==
    IF ~IsInteger(secs) THEN [ok |-> FALSE, st |-> st]
    ELSE IF st[k].val = Null THEN [ok |-> TRUE, st |-> st]
    ELSE IF secs.num <= 0 THEN [ok |-> TRUE, st |-> [st EXCEPT ![k] = Absent]]
    ELSE [ok |-> TRUE, st |-> [st EXCEPT ![k].ttl = secs.num]]

\* EXISTS key answered without looking
RedisExistsAlways(st, k) == TRUE

\* EXISTS key
RedisExists(st, k) == st[k].val # Null

\* DEL key
RedisDel(st, k) == [st EXCEPT ![k] = Absent]

\* The store d seconds later, an entry living one second longer than its TTL
ElapseLate(st, d) ==
    [k \in DOMAIN st |->
        IF st[k].ttl = 0 THEN st[k]
        ELSE IF st[k].ttl < d THEN Absent
        ELSE [st[k] EXCEPT !.ttl = st[k].ttl - d]]

\* The store d seconds later: an entry whose TTL has run out is gone
Elapse(st, d) ==
    [k \in DOMAIN st |->
        IF st[k].ttl = 0 THEN st[k]
        ELSE IF st[k].ttl <= d THEN Absent
        ELSE [st[k] EXCEPT !.ttl = st[k].ttl - d]]


(***************************************************************************)
(* Bounds of the model and the inputs the actions draw from                *)
(***************************************************************************)
\* The callers that may run getValueOrRetrieve at the same time
NumCallers == 2
\* The seconds that pass in one step when no key has a TTL
LongTime == 3600
\* The calls counted in a run of calls that all pass saveNullResponse=false
MaxPureCalls == 2

Procs == 1..NumCallers

\* getValueOrRetrieveDefaultOptions of the clients that are constructed
ClientConfigs ==
    { DefaultOptions(Undefined, Undefined),
      DefaultOptions(Num(2 * SECONDS), Str(<<"p">>)) }

\* The key getValueOrRetrieve is called with, and a key only setValue and del use
KeyInputs == { Arr(<<Str(<<"a">>), Num(1)>>) }
OtherKeys == { <<"b">> }

AllKeys ==
    { computeCacheKey(Constructor(c), i) : c \in ClientConfigs, i \in KeyInputs }
    \cup OtherKeys

\* options.duration: absent, 1 s, 1.5 s, 0 s
CallDurations == { Undefined, Num(1000), Num(1500), Duration(0, "SECONDS") }

CallOptions ==
    [ duration                   : CallDurations,
      renewCacheDurationOnAccess : {Undefined, Bool(TRUE)},
      saveNullResponse           : {Undefined, Bool(FALSE)},
      bypassCache                : {Undefined, Bool(TRUE)} ]

\* What a retrieve callback resolves to, or rejects with
RetrieveResults == { Null, Num(0), Str(NULL_SYMBOL) }
RetrieveErrors == { "E1", "E2" }

\* The values other code stores at the same keys with setValue
SetValueInputs == { Str(<<"H", "i">>), Str(<<>>) }

(***************************************************************************)
(* State                                                                   *)
(***************************************************************************)
VARIABLES
    client,   \* the CacheClient's private fields, set by the constructor
    store,    \* the store's keyspace
    call,     \* per caller: the getValueOrRetrieve call it is running
    hist,     \* per key: which call's write the entry is, and its age (history)
    ghost,    \* per key: whether only calls with saveNullResponse=false that
              \* retrieved null have used it, and how many (history)
    calc      \* the last application of a pure method

vars == <<client, store, call, hist, ghost, calc>>

Keys == { computeCacheKey(client, i) : i \in KeyInputs } \cup OtherKeys

NoOptions ==
    [ duration |-> Undefined, renewCacheDurationOnAccess |-> Undefined,
      saveNullResponse |-> Undefined, bypassCache |-> Undefined ]

Pending      == [kind |-> "pending", v |-> Undefined, e |-> ""]
Returned(v)  == [kind |-> "return", v |-> v, e |-> ""]
Thrown(e)    == [kind |-> "throw", v |-> Undefined, e |-> e]

\* The entry at a key is not the undisturbed write of a getValueOrRetrieve call
NoOrigin ==
    [ kind |-> "none", by |-> 0, v |-> Undefined, miss |-> FALSE, bypass |-> FALSE,
      retrieves |-> 0, complete |-> FALSE, ttl |-> 0, age |-> 0, renewed |-> FALSE ]

IdleCall ==
    [ pc |-> "idle", input |-> Undefined, key |-> <<>>, options |-> NoOptions,
      expirationTime |-> Divide(0, 1), value |-> Undefined, fetchedValue |-> Undefined,
      path |-> "none", retrieves |-> 0, cmds |-> <<>>, replyOk |-> TRUE,
      outcome |-> Pending, raised |-> "", origin0 |-> NoOrigin, pure0 |-> 0,
      touched |-> FALSE ]

\* The client has been constructed with options cfg and no method applied yet
Constructed(cfg) ==
    [fn |-> "constructor", cfg |-> cfg, arg |-> Undefined, out |-> <<>>,
     cmds |-> <<>>, seen |-> NoOrigin]

Init ==
    /\ \E cfg \in ClientConfigs : client = create(cfg) /\ calc = Constructed(cfg)
    /\ store = [k \in AllKeys |-> Absent]
    /\ call = [p \in Procs |-> IdleCall]
    /\ hist = [k \in AllKeys |-> NoOrigin]
    /\ ghost = [noSaveOnly |-> AllKeys, pureCalls |-> [k \in AllKeys |-> 0]]


(***************************************************************************)
(* getValueOrRetrieve.  The code between two awaits runs in one step.  A   *)
(* command takes effect in the store in the step that sends it: the        *)
(* callers share one connection, which the server reads in order.  The     *)
(* reply is consumed by the next step of the call.                         *)
(***************************************************************************)
Cmd(op, key) == [op |-> op, key |-> key]

\* The bypassCache option ignored
BypassesNever(options) == FALSE

\* The store never read
BypassesAlways(options) == TRUE

\* options?.bypassCache !== true, negated
Bypasses(options) == options.bypassCache = Bool(TRUE)

\* The saveNullResponse option ignored
SavesNullAlways(options) == TRUE

\* options?.saveNullResponse !== false
SavesNull(options) == options.saveNullResponse # Bool(FALSE)

\* The calls of the callers other than p that are running on key k have had
\* the entry changed under them (history)
Touch(calls, p, k) ==
    [q \in Procs |->
        IF q # p /\ calls[q].key = k /\ calls[q].pc \notin {"idle", "done"}
        THEN [calls[q] EXCEPT !.touched = TRUE] ELSE calls[q]]

\* The entry at a key is now the write of caller p's running call
Origin(p, c, v, ttl) ==
    [ kind |-> "cached", by |-> p, v |-> v,
      miss |-> (~Bypasses(c.options) /\ c.value = Null),
      bypass |-> Bypasses(c.options),
      retrieves |-> c.retrieves, complete |-> FALSE, ttl |-> ttl, age |-> 0,
      renewed |-> FALSE ]

\* What a starting call finds at its key: a finished call's undisturbed write, or
\* what is left of a write that has expired
Seen(h) ==
    IF h.kind = "expired" THEN h
    ELSE IF h.kind = "cached" /\ h.complete
    THEN [h EXCEPT !.ttl = 0, !.age = 0, !.renewed = FALSE]
    ELSE NoOrigin

\* The history of an entry whose TTL has run out
Expired(h) ==
    [NoOrigin EXCEPT !.kind = "expired", !.miss = h.miss, !.ttl = h.ttl,
                     !.v = IF h.v = Null THEN Null ELSE Undefined]

\* retrieve() evaluated once for the null test and once more for the value
InvokeRetrieveTwice(c) ==
    [c EXCEPT !.pc = "retrieve", !.path = "retrieve", !.retrieves = @ + 2]

\* const fetchedValue = await retrieve(): the callback is invoked
InvokeRetrieve(c) ==
    [c EXCEPT !.pc = "retrieve", !.path = "retrieve", !.retrieves = @ + 1]

\* The hit returning the stored string as it is
HitReturnRaw(c) ==
    IF c.value = Str(NULL_SYMBOL)
    THEN [c EXCEPT !.pc = "done", !.outcome = Returned(Null)]
    ELSE [c EXCEPT !.pc = "done", !.outcome = Returned(c.value)]

\* The hit's return: null for the sentinel, JSON.parse(value) otherwise
HitReturn(c) ==
    IF c.value = Str(NULL_SYMBOL)
    THEN [c EXCEPT !.pc = "done", !.outcome = Returned(Null)]
    ELSE LET parsed == JsonParse(c.value.s)
         IN  IF parsed.ok
             THEN [c EXCEPT !.pc = "done", !.outcome = Returned(parsed.v)]
             ELSE [c EXCEPT !.pc = "done", !.outcome = Thrown("SyntaxError")]

\* value && value !== NULL_SYMBOL
IsHitUnlessSentinel(value, options) ==
    /\ Truthy(value)
    /\ value # Str(NULL_SYMBOL)

\* The hit test without the saveNullResponse part: every stored string is a hit
IsHitAnyString(value, options) == Truthy(value)

\* value && (value !== NULL_SYMBOL || options?.saveNullResponse !== false)
IsHit(value, options) ==
    /\ Truthy(value)
    /\ (value # Str(NULL_SYMBOL) \/ SavesNull(options))

\* The call starts: the key, the TTL, and the GET unless the cache is bypassed
Call(p, input, options) ==
    /\ call[p].pc = "idle"
    /\ LET key  == computeCacheKey(client, input)
           pure == IF options.saveNullResponse = Bool(FALSE)
                   THEN ghost.noSaveOnly ELSE ghost.noSaveOnly \ {key}
           nth  == IF key \in pure THEN Min(ghost.pureCalls[key] + 1, MaxPureCalls) ELSE 0
           c    == [IdleCall EXCEPT !.input = input, !.key = key, !.options = options,
                                    !.expirationTime = expirationTime(client, options),
                                    !.origin0 = Seen(hist[key]), !.pure0 = nth]
       IN  /\ call' = [call EXCEPT ![p] =
                 IF ~Bypasses(options)
                 THEN [c EXCEPT !.pc = "get", !.value = RedisGet(store, key),
                                !.cmds = <<Cmd("GET", key)>>]
                 ELSE InvokeRetrieve(c)]
           /\ ghost' = [ghost EXCEPT !.noSaveOnly = pure, !.pureCalls[key] = nth]
    /\ UNCHANGED <<client, store, hist, calc>>

\* The GET's reply: a hit (renewed with EXPIRE if asked for) or the retrieve
GetReply(p) ==
    /\ call[p].pc = "get"
    /\ LET c == call[p]
       IN  IF IsHit(c.value, c.options)
           THEN IF Truthy(c.options.renewCacheDurationOnAccess)
                THEN LET r == RedisExpire(store, c.key, c.expirationTime)
                     IN  /\ store' = r.st
                         /\ call' = [(IF r.st[c.key].val # store[c.key].val
                                       THEN Touch(call, p, c.key) ELSE call) EXCEPT ![p] =
                               [c EXCEPT !.pc = "expire", !.path = "hit", !.replyOk = r.ok,
                                         !.cmds = Append(@, Cmd("EXPIRE", c.key))]]
                         /\ hist' = [hist EXCEPT ![c.key] =
                               IF store[c.key].val = Null THEN @
                               ELSE IF r.st[c.key].val = Null THEN NoOrigin
                               ELSE IF r.ok /\ @.kind = "cached"
                               THEN [@ EXCEPT !.renewed = TRUE, !.ttl = 0, !.age = 0]
                               ELSE @]
                ELSE /\ call' = [call EXCEPT ![p] = HitReturn([c EXCEPT !.path = "hit"])]
                     /\ UNCHANGED <<store, hist>>
           ELSE /\ call' = [call EXCEPT ![p] = InvokeRetrieve(c)]
                /\ UNCHANGED <<store, hist>>
    /\ UNCHANGED <<client, ghost, calc>>

\* The EXPIRE's reply with a failed EXPIRE sent once more
ExpireReplyRetries(p) ==
    /\ call[p].pc = "expire"
    /\ call' = [call EXCEPT ![p] =
          IF call[p].replyOk THEN HitReturn(call[p])
          ELSE [call[p] EXCEPT !.replyOk = TRUE,
                               !.cmds = Append(@, Cmd("EXPIRE", call[p].key))]]
    /\ UNCHANGED <<client, store, hist, ghost, calc>>

\* The EXPIRE's reply with the catch left out: an error ends the call
ExpireReplyRaises(p) ==
    /\ call[p].pc = "expire"
    /\ call' = [call EXCEPT ![p] =
          IF call[p].replyOk THEN HitReturn(call[p])
          ELSE [call[p] EXCEPT !.pc = "done", !.outcome = Thrown("ERR")]]
    /\ UNCHANGED <<client, store, hist, ghost, calc>>

\* The EXPIRE's reply: an error is caught and logged, the hit returns
ExpireReply(p) ==
    /\ call[p].pc = "expire"
    /\ call' = [call EXCEPT ![p] = HitReturn(call[p])]
    /\ UNCHANGED <<client, store, hist, ghost, calc>>

\* retrieve resolves, and a null that is not to be saved clears the key
RetrieveReturnsClearing(p, v) ==
    /\ call[p].pc = "retrieve"
    /\ LET c == [call[p] EXCEPT !.fetchedValue = v]
       IN  IF v = Null
           THEN IF SavesNull(c.options)
                THEN /\ store' = RedisSet(store, c.key, NULL_SYMBOL)
                     /\ hist' = [hist EXCEPT ![c.key] = Origin(p, c, v, 0)]
                     /\ call' = [Touch(call, p, c.key) EXCEPT ![p] =
                           [c EXCEPT !.pc = "set", !.replyOk = TRUE,
                                     !.cmds = Append(@, Cmd("SET", c.key))]]
                ELSE /\ store' = RedisDel(store, c.key)
                     /\ hist' = [hist EXCEPT ![c.key] = NoOrigin]
                     /\ call' = [call EXCEPT ![p] =
                           [c EXCEPT !.pc = "done", !.outcome = Returned(Null)]]
           ELSE LET r == RedisSetEx(store, c.key, JsonStringify(v), c.expirationTime)
                IN  /\ store' = r.st
                    /\ hist' = [hist EXCEPT ![c.key] =
                          IF r.ok THEN Origin(p, c, v, c.expirationTime.num) ELSE @]
                    /\ call' = [(IF r.ok THEN Touch(call, p, c.key) ELSE call) EXCEPT ![p] =
                          [c EXCEPT !.pc = "set", !.replyOk = r.ok,
                                    !.cmds = Append(@, Cmd("SET", c.key))]]
    /\ ghost' = [ghost EXCEPT !.noSaveOnly = IF v = Null THEN @ ELSE @ \ {call[p].key}]
    /\ UNCHANGED <<client, calc>>

\* retrieve resolves to v: the sentinel or the stringified value is SET
RetrieveReturns(p, v) ==
    /\ call[p].pc = "retrieve"
    /\ LET c == [call[p] EXCEPT !.fetchedValue = v]
       IN  IF v = Null
           THEN IF SavesNull(c.options)
                THEN /\ store' = RedisSet(store, c.key, NULL_SYMBOL)
                     /\ hist' = [hist EXCEPT ![c.key] = Origin(p, c, v, 0)]
                     /\ call' = [Touch(call, p, c.key) EXCEPT ![p] =
                           [c EXCEPT !.pc = "set", !.replyOk = TRUE,
                                     !.cmds = Append(@, Cmd("SET", c.key))]]
                ELSE /\ call' = [call EXCEPT ![p] =
                           [c EXCEPT !.pc = "done", !.outcome = Returned(Null)]]
                     /\ UNCHANGED <<store, hist>>
           ELSE LET r == RedisSetEx(store, c.key, JsonStringify(v), c.expirationTime)
                IN  /\ store' = r.st
                    /\ hist' = [hist EXCEPT ![c.key] =
                          IF r.ok THEN Origin(p, c, v, c.expirationTime.num) ELSE @]
                    /\ call' = [(IF r.ok THEN Touch(call, p, c.key) ELSE call) EXCEPT ![p] =
                          [c EXCEPT !.pc = "set", !.replyOk = r.ok,
                                    !.cmds = Append(@, Cmd("SET", c.key))]]
    /\ ghost' = [ghost EXCEPT !.noSaveOnly = IF v = Null THEN @ ELSE @ \ {call[p].key}]
    /\ UNCHANGED <<client, calc>>

\* retrieve rejects with e, and the failure is cached as a null result
RetrieveThrowsCachesNull(p, e) ==
    /\ call[p].pc = "retrieve"
    /\ store' = RedisSet(store, call[p].key, NULL_SYMBOL)
    /\ hist' = [hist EXCEPT ![call[p].key] = NoOrigin]
    /\ call' = [call EXCEPT ![p] =
          [@ EXCEPT !.pc = "done", !.raised = e, !.outcome = Thrown(e),
                    !.cmds = Append(@, Cmd("SET", call[p].key))]]
    /\ ghost' = [ghost EXCEPT !.noSaveOnly = @ \ {call[p].key}]
    /\ UNCHANGED <<client, calc>>

\* retrieve rejects with e: the rejection leaves the call as it is
RetrieveThrows(p, e) ==
    /\ call[p].pc = "retrieve"
    /\ call' = [call EXCEPT ![p] =
          [@ EXCEPT !.pc = "done", !.raised = e, !.outcome = Thrown(e)]]
    /\ ghost' = [ghost EXCEPT !.noSaveOnly = @ \ {call[p].key}]
    /\ UNCHANGED <<client, store, hist, calc>>

\* The SET's reply with the call returning the stored string
SetReplyReturnsStored(p) ==
    /\ call[p].pc = "set"
    /\ LET c == call[p]
       IN  /\ call' = [call EXCEPT ![p] =
                 [c EXCEPT !.pc = "done",
                           !.outcome = IF c.replyOk
                                       THEN Returned(IF c.fetchedValue = Null THEN Null
                                                     ELSE Str(JsonStringify(c.fetchedValue)))
                                       ELSE Thrown("ERR")]]
           /\ hist' = [hist EXCEPT ![c.key] =
                 IF c.replyOk /\ @.kind = "cached" /\ @.by = p /\ ~@.complete
                 THEN [@ EXCEPT !.complete = TRUE] ELSE @]
    /\ UNCHANGED <<client, store, ghost, calc>>

\* The SET's reply: the call returns what retrieve gave, or the store's error
SetReply(p) ==
    /\ call[p].pc = "set"
    /\ LET c == call[p]
       IN  /\ call' = [call EXCEPT ![p] =
                 [c EXCEPT !.pc = "done",
                           !.outcome = IF c.replyOk THEN Returned(c.fetchedValue)
                                       ELSE Thrown("ERR")]]
           /\ hist' = [hist EXCEPT ![c.key] =
                 IF c.replyOk /\ @.kind = "cached" /\ @.by = p /\ ~@.complete
                 THEN [@ EXCEPT !.complete = TRUE] ELSE @]
    /\ UNCHANGED <<client, store, ghost, calc>>


\* The caller has the call's result
Finish(p) ==
    /\ call[p].pc = "done"
    /\ call' = [call EXCEPT ![p] = IdleCall]
    /\ UNCHANGED <<client, store, hist, ghost, calc>>

(***************************************************************************)
(* The other users of the store: setValue, del, and the passing of time.   *)
(* They act while a call is running or none is, not on a finished call     *)
(* whose caller has yet to take the result.                                *)
(***************************************************************************)
NoneDone == \A p \in Procs : call[p].pc # "done"

\* setValue converting with String(value) instead of JSON.stringify(value)
setValueStringByString(value) == IF value.t # "str" THEN TemplateString(value) ELSE value.s

\* The string setValue stores: a string as it is, anything else stringified
setValueString(value) == IF value.t # "str" THEN JsonStringify(value) ELSE value.s

\* setValue(key, value)
SetValue(k, value) ==
    /\ k \in Keys
    /\ NoneDone
    /\ store' = RedisSet(store, k, setValueString(value))
    /\ hist' = [hist EXCEPT ![k] = NoOrigin]
    /\ ghost' = [ghost EXCEPT !.noSaveOnly = @ \ {k}]
    /\ call' = Touch(call, 0, k)
    /\ UNCHANGED <<client, calc>>

\* del(key)
Del(k) ==
    /\ k \in Keys
    /\ NoneDone
    /\ store' = RedisDel(store, k)
    /\ hist' = [hist EXCEPT ![k] = NoOrigin]
    /\ ghost' = [ghost EXCEPT !.noSaveOnly = @ \ {k}]
    /\ call' = Touch(call, 0, k)
    /\ UNCHANGED <<client, calc>>

\* The steps of time that are taken: to the next expiry, and to the second before it
AdvanceSteps ==
    LET ttls == { store[k].ttl : k \in AllKeys } \ {0}
    IN  IF ttls = {} THEN {LongTime}
        ELSE LET m == CHOOSE t \in ttls : \A u \in ttls : t <= u
             IN  {m} \cup (IF m > 1 THEN {m - 1} ELSE {})

\* d seconds pass
Advance(d) ==
    /\ d \in AdvanceSteps
    /\ NoneDone
    /\ store' = Elapse(store, d)
    /\ hist' = [k \in AllKeys |->
          IF hist[k].kind \notin {"cached", "set"} THEN hist[k]
          ELSE IF Elapse(store, d)[k].val = Null THEN Expired(hist[k])
          ELSE IF hist[k].renewed THEN hist[k]
          ELSE [hist[k] EXCEPT
                  !.age = Min(@ + d, IF hist[k].ttl > 0 THEN hist[k].ttl ELSE LongTime)]]
    /\ call' = [q \in Procs |->
          IF call[q].pc \notin {"idle", "done"}
             /\ store[call[q].key].val # Elapse(store, d)[call[q].key].val
          THEN [call[q] EXCEPT !.touched = TRUE] ELSE call[q]]
    /\ UNCHANGED <<client, ghost, calc>>

\* Time passes
Tick == \E d \in AdvanceSteps : Advance(d)

(***************************************************************************)
(* One caller, and the other users of the store between its steps          *)
(***************************************************************************)
Next ==
    \/ \E input \in KeyInputs, options \in CallOptions : Call(1, input, options)
    \/ GetReply(1)
    \/ ExpireReply(1)
    \/ \E v \in RetrieveResults : RetrieveReturns(1, v)
    \/ \E e \in RetrieveErrors : RetrieveThrows(1, e)
    \/ SetReply(1)
    \/ Finish(1)
    \/ \E k \in AllKeys, value \in SetValueInputs : SetValue(k, value)
    \/ \E k \in AllKeys : Del(k)
    \/ Tick

Spec == Init /\ [][Next]_vars

(***************************************************************************)
(* Two callers at the same key, and nothing else using the store           *)
(***************************************************************************)
RaceOptions ==
    { o \in CallOptions : o.duration \in {Undefined, Num(1500)} /\ ~Bypasses(o) }
RaceResults == { Null, Num(0), Num(1) }

RaceNext ==
    \E p \in Procs :
        \/ \E input \in KeyInputs, options \in RaceOptions : Call(p, input, options)
        \/ GetReply(p)
        \/ ExpireReply(p)
        \/ \E v \in RaceResults : RetrieveReturns(p, v)
        \/ \E e \in RetrieveErrors : RetrieveThrows(p, e)
        \/ SetReply(p)
        \/ Finish(p)

SpecRace == Init /\ [][RaceNext]_vars

(***************************************************************************)
(* The pure methods: a client is constructed, and computeCacheKey and the  *)
(* TTL computation of getValueOrRetrieve are applied to it.                *)
(***************************************************************************)
\* The longest array given as a key, and the longest string
MaxKeyElements == 3
MaxKeyChars == 2
\* The largest value of a duration given with a unit
MaxDurationValue == 3

CalcConfigs ==
    { DefaultOptions(d, k) :
        d \in { Undefined, Num(0), Num(1500), Num(10 * MINUTES) },
        k \in { Undefined, Str(<<>>), Str(<<"p">>), Str(<<"u", "_">>) } }

KeyElements == { Str(<<"a">>), Str(<<>>), Num(12), Null }

CalcKeyInputs ==
    { Str(s) : s \in UNION { [1..n -> {"a", "_"}] : n \in 0..MaxKeyChars } }
    \cup { Arr(a) : a \in UNION { [1..n -> KeyElements] : n \in 0..MaxKeyElements } }

Units == { "MILLISECONDS", "SECONDS", "MINUTES", "HOURS", "DAYS" }

CalcDurations ==
    { Undefined }
    \cup { Num(n) : n \in { 0, 1, 500, 1000, 1500, 60000 } }
    \cup { Duration(v, u) : v \in 0..MaxDurationValue, u \in Units }

CalcInit ==
    /\ \E cfg \in CalcConfigs : client = create(cfg) /\ calc = Constructed(cfg)
    /\ store = [k \in AllKeys |-> Absent]
    /\ call = [p \in Procs |-> IdleCall]
    /\ hist = [k \in AllKeys |-> NoOrigin]
    /\ ghost = [noSaveOnly |-> AllKeys, pureCalls |-> [k \in AllKeys |-> 0]]

\* computeCacheKey(input)
ComputeCacheKey(input) ==
    /\ calc' = [calc EXCEPT !.fn = "computeCacheKey", !.arg = input,
                            !.out = computeCacheKey(client, input)]
    /\ UNCHANGED <<client, store, call, hist, ghost>>

\* The first statement of getValueOrRetrieve, for options with this duration
ComputeExpirationTime(duration) ==
    /\ calc' = [calc EXCEPT !.fn = "expirationTime", !.arg = duration,
                            !.out = expirationTime(client, [NoOptions EXCEPT !.duration = duration])]
    /\ UNCHANGED <<client, store, call, hist, ghost>>

CalcNext ==
    \/ \E input \in CalcKeyInputs : ComputeCacheKey(input)
    \/ \E duration \in CalcDurations : ComputeExpirationTime(duration)

SpecCalc == CalcInit /\ [][CalcNext]_vars

(***************************************************************************)
(* The direct accessors: setValue, getValue, exists and del on one client, *)
(* its connection opening and closing, and time passing.  The result of    *)
(* the last call, and the history of the key as the call found it, are     *)
(* kept in calc.                                                            *)
(***************************************************************************)
\* The largest n of setValue(key, value, "EX", n)
MaxExSeconds == 2

\* The key the direct accessors are used on
DirectKeys == OtherKeys

\* The values given to setValue: JSON values that are not strings, and strings
DirectValues ==
    { Num(0), Num(12), Bool(FALSE),
      Arr(<<Num(1), Str(<<"a">>)>>), Obj(<< <<<<"k">>, Null>> >>) }
    \cup { Str(<<"H", "i">>), Str(<<>>), Str(<<"1", "0">>), Str(<<"t", "r", "u", "e">>),
           Str(<<"n", "u", "l", "l">>), Str(<<QUOTE, "x", QUOTE>>), Str(NULL_SYMBOL) }

\* The rest arguments of setValue: none, or "EX" and the seconds
SetOptions == { <<>> } \cup { <<"EX", n>> : n \in 1..MaxExSeconds }

DirectInit ==
    /\ \E cfg \in { DefaultOptions(Undefined, Undefined) } :
          /\ client \in { create(cfg), Constructor(cfg) }
          /\ calc = Constructed(cfg)
    /\ store = [k \in AllKeys |-> Absent]
    /\ call = [p \in Procs |-> IdleCall]
    /\ hist = [k \in AllKeys |-> NoOrigin]
    /\ ghost = [noSaveOnly |-> AllKeys, pureCalls |-> [k \in AllKeys |-> 0]]

\* this.client.connected, taken to be true whatever the connection's state
IsConnectedAlways(self) == TRUE

\* this.client.connected
IsConnected(self) == self.connected

\* getValue without the try and catch around JSON.parse
getValueResultUncaught(value, raw) ==
    IF Truthy(raw) \/ value = Null THEN Returned(value)
    ELSE LET parsed == JsonParse(value.s)
         IN  IF parsed.ok THEN Returned(parsed.v) ELSE Thrown("SyntaxError")

\* getValue returning the stored string whatever raw is
getValueResultRaw(value, raw) == Returned(value)

\* What getValue makes of the GET's reply
getValueResult(value, raw) ==
    IF Truthy(raw) \/ value = Null THEN Returned(value)
    ELSE LET parsed == JsonParse(value.s)
         IN  IF parsed.ok THEN Returned(parsed.v) ELSE Returned(value)

\* The connection of a client created with waitForConnection: false opens
connect ==
    /\ ~client.connected
    /\ client' = [client EXCEPT !.connected = TRUE]
    /\ UNCHANGED <<store, call, hist, ghost, calc>>

\* close()
close ==
    /\ client.connected
    /\ client' = [client EXCEPT !.connected = FALSE]
    /\ UNCHANGED <<store, call, hist, ghost, calc>>

\* setValue(key, value, ...options), on a connected client
setValue(k, value, options) ==
    /\ client.connected
    /\ store' = IF Len(options) = 0
                THEN RedisSet(store, k, setValueString(value))
                ELSE RedisSetEx(store, k, setValueString(value), Divide(options[2], 1)).st
    /\ hist' = [hist EXCEPT ![k] =
          [NoOrigin EXCEPT !.kind = "set", !.v = value,
                           !.ttl = IF Len(options) = 0 THEN 0 ELSE options[2]]]
    /\ ghost' = [ghost EXCEPT !.noSaveOnly = @ \ {k}]
    /\ calc' = [calc EXCEPT !.fn = "setValue",
                            !.arg = [key |-> k, raw |-> Undefined, connected |-> TRUE],
                            !.out = Returned(Str(<<"O", "K">>)),
                            !.cmds = <<Cmd("SET", k)>>, !.seen = hist[k]]
    /\ UNCHANGED <<client, call>>

\* getValue(key, raw)
getValue(k, raw) ==
    /\ calc' = [calc EXCEPT !.fn = "getValue",
                            !.arg = [key |-> k, raw |-> raw, connected |-> client.connected],
                            !.out = IF IsConnected(client)
                                    THEN getValueResult(RedisGet(store, k), raw)
                                    ELSE Returned(Null),
                            !.cmds = IF IsConnected(client) THEN <<Cmd("GET", k)>> ELSE <<>>,
                            !.seen = hist[k]]
    /\ UNCHANGED <<client, store, call, hist, ghost>>

\* exists(key), on a connected client
exists(k) ==
    /\ client.connected
    /\ calc' = [calc EXCEPT !.fn = "exists",
                            !.arg = [key |-> k, raw |-> Undefined, connected |-> TRUE],
                            !.out = Returned(Bool(RedisExists(store, k))),
                            !.cmds = <<Cmd("EXISTS", k)>>, !.seen = hist[k]]
    /\ UNCHANGED <<client, store, call, hist, ghost>>

\* del(key), on a connected client: the number of keys removed
del(k) ==
    /\ client.connected
    /\ store' = RedisDel(store, k)
    /\ hist' = [hist EXCEPT ![k] =
          [NoOrigin EXCEPT !.kind = "deleted",
                           !.v = IF hist[k].kind = "set" THEN hist[k].v ELSE Undefined]]
    /\ ghost' = [ghost EXCEPT !.noSaveOnly = @ \ {k}]
    /\ calc' = [calc EXCEPT !.fn = "del",
                            !.arg = [key |-> k, raw |-> Undefined, connected |-> TRUE],
                            !.out = Returned(Num(IF store[k].val = Null THEN 0 ELSE 1)),
                            !.cmds = <<Cmd("DEL", k)>>, !.seen = hist[k]]
    /\ UNCHANGED <<client, call>>

DirectNext ==
    \/ connect
    \/ close
    \/ \E k \in DirectKeys, value \in DirectValues, options \in SetOptions :
          setValue(k, value, options)
    \/ \E k \in DirectKeys, raw \in {Undefined, Bool(TRUE)} : getValue(k, raw)
    \/ \E k \in DirectKeys : exists(k)
    \/ \E k \in DirectKeys : del(k)
    \/ Tick

SpecDirect == DirectInit /\ [][DirectNext]_vars

(***************************************************************************)
(* transaction(callback).  The callback's writes go through tempClient,    *)
(* whose connection is in MULTI state: the server queues them, applies     *)
(* them in one step on EXEC and drops them on DISCARD.  The client the     *)
(* transaction was started on reads the store meanwhile.                   *)
(***************************************************************************)
\* The writes a callback issues at most
MaxTxWrites == 2

\* The keys the callback writes: tempClient has no prefix
TxKeys ==
    OtherKeys
    \cup { computeCacheKey(create(DefaultOptions(Undefined, Undefined)), i) : i \in KeyInputs }

TxValues == { Num(0), Str(<<"H", "i">>) }

\* A connection as the server sees it: whether MULTI was sent, and what is queued
NoMulti == [multi |-> FALSE, queue |-> <<>>]

\* A command the server applies to the keyspace
Apply(st, cmd) ==
    IF cmd.op = "SET" THEN RedisSet(st, cmd.key, cmd.val) ELSE RedisDel(st, cmd.key)

RECURSIVE ApplyAll(_, _)
ApplyAll(st, queue) ==
    IF queue = <<>> THEN st ELSE ApplyAll(Apply(st, Head(queue)), Tail(queue))

\* MULTI lost before it reaches the server
RedisMultiLost(conn) == conn

\* MULTI
RedisMulti(conn) == [conn EXCEPT !.multi = TRUE]

\* A write command: queued on a connection in MULTI state, applied otherwise
RedisWrite(st, conn, cmd) ==
    IF conn.multi
    THEN [st |-> st, conn |-> [conn EXCEPT !.queue = Append(@, cmd)]]
    ELSE [st |-> Apply(st, cmd), conn |-> conn]

\* EXEC: the queued commands are applied in order, in one step
RedisExec(st, conn) == [st |-> ApplyAll(st, conn.queue), conn |-> NoMulti]

\* DISCARD taken for EXEC
RedisDiscardCommits(st, conn) == [st |-> ApplyAll(st, conn.queue), conn |-> NoMulti]

\* DISCARD: the queued commands are dropped
RedisDiscard(st, conn) == [st |-> st, conn |-> NoMulti]

IdleTx ==
    [ pc |-> "idle", tempClient |-> Constructor(DefaultOptions(Undefined, Undefined)),
      conn |-> NoMulti, issued |-> <<>>, store0 |-> <<>>,
      outcome |-> Pending, raised |-> "" ]

TxInit ==
    /\ \E cfg \in ClientConfigs : client = create(cfg) /\ calc = Constructed(cfg)
    /\ store = [k \in AllKeys |-> Absent]
    /\ call = [p \in Procs |-> IdleTx]
    /\ hist = [k \in AllKeys |-> NoOrigin]
    /\ ghost = [noSaveOnly |-> AllKeys, pureCalls |-> [k \in AllKeys |-> 0]]

\* transaction(callback): tempClient is created with the url alone, and MULTI sent
transaction(p) ==
    /\ call[p].pc = "idle"
    /\ call' = [call EXCEPT ![p] =
          [IdleTx EXCEPT !.pc = "callback",
                         !.tempClient = create(DefaultOptions(Undefined, Undefined)),
                         !.conn = RedisMulti(NoMulti),
                         !.store0 = store]]
    /\ UNCHANGED <<client, store, hist, ghost, calc>>

\* A write of the callback through tempClient
TxSend(p, cmd) ==
    /\ call[p].pc = "callback"
    /\ Len(call[p].issued) < MaxTxWrites
    /\ LET r == RedisWrite(store, call[p].conn, cmd)
       IN  /\ store' = r.st
           /\ call' = [call EXCEPT ![p] =
                 [@ EXCEPT !.conn = r.conn, !.issued = Append(@, cmd)]]
    /\ UNCHANGED <<client, hist, ghost, calc>>

\* The callback calls tx.setValue(key, value)
txSetValue(p, k, value) ==
    /\ k \in TxKeys
    /\ TxSend(p, [op |-> "SET", key |-> k, val |-> setValueString(value), v |-> value])

\* The callback calls tx.del(key)
txDel(p, k) ==
    /\ k \in TxKeys
    /\ TxSend(p, [op |-> "DEL", key |-> k, val |-> <<>>, v |-> Undefined])

\* The history of a key after a transaction's writes have been applied
Committed(h, k, queue) ==
    LET on == SelectSeq(queue, LAMBDA cmd : cmd.key = k)
    IN  IF on = <<>> THEN h
        ELSE IF on[Len(on)].op = "SET"
             THEN [NoOrigin EXCEPT !.kind = "tx", !.v = on[Len(on)].v]
             ELSE [NoOrigin EXCEPT !.kind = "deleted"]

\* The callback returns: EXEC is sent
callbackReturns(p) ==
    /\ call[p].pc = "callback"
    /\ LET r == RedisExec(store, call[p].conn)
       IN  /\ store' = r.st
           /\ call' = [call EXCEPT ![p] = [@ EXCEPT !.pc = "exec", !.conn = r.conn]]
           /\ hist' = [k \in AllKeys |-> Committed(hist[k], k, call[p].conn.queue)]
    /\ UNCHANGED <<client, ghost, calc>>

\* EXEC's reply: transaction returns
execReply(p) ==
    /\ call[p].pc = "exec"
    /\ call' = [call EXCEPT ![p] = [@ EXCEPT !.pc = "done", !.outcome = Returned(Undefined)]]
    /\ UNCHANGED <<client, store, hist, ghost, calc>>

\* The callback raises e: DISCARD is sent and e thrown on
callbackThrows(p, e) ==
    /\ call[p].pc = "callback"
    /\ LET r == RedisDiscard(store, call[p].conn)
       IN  /\ store' = r.st
           /\ call' = [call EXCEPT ![p] =
                 [@ EXCEPT !.pc = "done", !.conn = r.conn, !.raised = e,
                           !.outcome = Thrown(e)]]
           /\ hist' = [k \in AllKeys |->
                 IF r.st[k] = store[k] THEN hist[k]
                 ELSE Committed(hist[k], k, call[p].conn.queue)]
    /\ UNCHANGED <<client, ghost, calc>>

\* The caller has the transaction's result
txFinish(p) ==
    /\ call[p].pc = "done"
    /\ call' = [call EXCEPT ![p] = IdleTx]
    /\ UNCHANGED <<client, store, hist, ghost, calc>>

TxNext ==
    \/ transaction(1)
    \/ \E k \in TxKeys, value \in TxValues : txSetValue(1, k, value)
    \/ \E k \in TxKeys : txDel(1, k)
    \/ callbackReturns(1)
    \/ execReply(1)
    \/ \E e \in RetrieveErrors : callbackThrows(1, e)
    \/ txFinish(1)
    \/ \E k \in TxKeys : getValue(k, Undefined)
    \/ \E k \in TxKeys : exists(k)

SpecTx == TxInit /\ [][TxNext]_vars

(***************************************************************************)
(* getValueOrRetrieve: one caller                                          *)
(***************************************************************************)
\* What the store holds for a retrieved value: the sentinel for null
StoredForm(v) == IF v = Null THEN NULL_SYMBOL ELSE JsonStringify(v)

NotBypassed(c) == c.options.bypassCache # Bool(TRUE)
NullsSaved(c) == c.options.saveNullResponse # Bool(FALSE)
PastRead(c) == c.pc \in {"retrieve", "set", "done"}
OnlyReads(c) == \A i \in DOMAIN c.cmds : c.cmds[i].op = "GET"

\* C1: a call that does not bypass the cache, made when the key holds the
\* undisturbed non-null result v that a finished call wrote after finding the
\* key absent, returns v and does not invoke its retrieve, so retrieve has
\* been invoked once over the two calls.
C1_SecondCallIsServed ==
    \A p \in Procs :
        LET c == call[p]
        IN  (/\ c.pc = "done" /\ NotBypassed(c)
             /\ c.origin0.kind = "cached" /\ c.origin0.miss /\ c.origin0.v # Null)
            => /\ c.outcome = Returned(c.origin0.v)
               /\ c.retrieves = 0
               /\ c.origin0.retrieves + c.retrieves = 1

\* C1: a second call has been served the number 0 the first call retrieved
C1_Witness ==
    \E p \in Procs :
        /\ call[p].pc = "done" /\ NotBypassed(call[p])
        /\ call[p].origin0.kind = "cached" /\ call[p].origin0.miss
        /\ call[p].origin0.v = Num(0)
        /\ call[p].outcome = Returned(Num(0))

\* C2, as amended: a call with saveNullResponse not false and bypassCache not
\* true, made when the key holds the undisturbed sentinel that a finished call
\* wrote after finding the key absent and retrieving null, returns null and
\* does not invoke its retrieve.
C2_NullIsServed ==
    \A p \in Procs :
        LET c == call[p]
        IN  (/\ c.pc = "done" /\ NotBypassed(c) /\ NullsSaved(c)
             /\ c.origin0.kind = "cached" /\ c.origin0.miss /\ c.origin0.v = Null)
            => /\ c.outcome = Returned(Null)
               /\ c.retrieves = 0

\* C2: a call has been served the null an earlier call cached
C2_Witness ==
    \E p \in Procs :
        /\ call[p].pc = "done" /\ NotBypassed(call[p]) /\ NullsSaved(call[p])
        /\ call[p].origin0.kind = "cached" /\ call[p].origin0.miss
        /\ call[p].origin0.v = Null
        /\ call[p].outcome = Returned(Null)
        /\ call[p].path = "hit"

\* C2 as stated: every later such call returns null without its retrieve, also
\* one made after the sentinel, given a TTL by a renewing hit, has expired
C2_AsStated ==
    \A p \in Procs :
        LET c == call[p]
        IN  (/\ c.pc = "done" /\ NotBypassed(c) /\ NullsSaved(c)
             /\ c.origin0.kind \in {"cached", "expired"}
             /\ c.origin0.miss /\ c.origin0.v = Null)
            => /\ c.outcome = Returned(Null)
               /\ c.retrieves = 0

\* C3: while a key, absent at first, has only been used by calls with
\* saveNullResponse=false whose retrieves returned null, the store does not
\* hold the sentinel at it, and every such call invokes its retrieve.
C3_NullIsNotSaved ==
    /\ \A k \in ghost.noSaveOnly : store[k].val # Str(NULL_SYMBOL)
    /\ \A p \in Procs :
          LET c == call[p]
          IN  c.pure0 > 0 =>
                /\ c.pc # "expire"
                /\ PastRead(c) => c.retrieves = 1 /\ c.path = "retrieve"

\* C3: a later call of such a run of calls has retrieved null again
C3_Witness ==
    \E p \in Procs :
        /\ call[p].pure0 = MaxPureCalls
        /\ call[p].pc = "done"
        /\ call[p].outcome = Returned(Null)
        /\ call[p].retrieves = 1
        /\ call[p].key \in ghost.noSaveOnly
        /\ store[call[p].key] = Absent

\* C4: a call invokes its retrieve at most once: not at all when it returns a
\* value served from the store, once when it finds the key absent, bypasses
\* the cache, or finds the sentinel with saveNullResponse=false.
C4_RetrieveAtMostOnce ==
    \A p \in Procs :
        LET c == call[p]
            forced == c.value = Str(NULL_SYMBOL) /\ ~NullsSaved(c)
        IN  /\ c.retrieves <= 1
            /\ (c.pc = "done" /\ c.path = "hit") => c.retrieves = 0
            /\ (c.pc # "idle" /\ ~NotBypassed(c)) => c.retrieves = 1
            /\ (c.pc \notin {"idle", "get"} /\ NotBypassed(c) /\ (c.value = Null \/ forced))
                  => c.retrieves = 1 /\ c.pc # "expire"

\* C4: a call that found the sentinel with saveNullResponse=false has retrieved
C4_Witness ==
    \E p \in Procs :
        /\ call[p].pc = "done"
        /\ NotBypassed(call[p]) /\ ~NullsSaved(call[p])
        /\ call[p].value = Str(NULL_SYMBOL)
        /\ call[p].retrieves = 1
        /\ call[p].outcome = Returned(Num(0))

\* C6: a call whose retrieve raised an error ends with that error, has sent
\* the store no write, and leaves the value at its key as the call found it.
C6_RetrieveErrorPropagates ==
    \A p \in Procs :
        LET c == call[p]
        IN  (c.pc = "done" /\ c.raised # "")
            => /\ c.outcome = Thrown(c.raised)
               /\ OnlyReads(c)
               /\ c.fetchedValue = Undefined
               /\ (NotBypassed(c) /\ ~c.touched) => store[c.key].val = c.value
               /\ ~(hist[c.key].kind = "cached" /\ ~hist[c.key].complete)

\* C6: a bypassing call on a key that holds a value has ended with retrieve's
\* error, and the value is still there
C6_Witness ==
    \E p \in Procs :
        /\ call[p].pc = "done"
        /\ call[p].raised = "E2"
        /\ call[p].outcome = Thrown("E2")
        /\ ~NotBypassed(call[p])
        /\ call[p].origin0.kind = "cached"
        /\ store[call[p].key].val = Str(StoredForm(call[p].origin0.v))

\* C7: a non-null value a call has written is in the store with the call's
\* expirationSeconds as its TTL (300 when neither the call nor the client
\* configures a duration), which runs down as time passes; once it has run out
\* the key is absent and the next call invokes its retrieve.
C7_StoredWithTtl ==
    /\ \A k \in AllKeys :
          LET h == hist[k]
          IN  (h.kind = "cached" /\ h.v # Null /\ ~h.renewed)
              => /\ store[k].val = Str(JsonStringify(h.v))
                 /\ h.ttl > 0 /\ h.age < h.ttl
                 /\ store[k].ttl = h.ttl - h.age
    /\ \A k \in AllKeys : hist[k].kind = "expired" => store[k] = Absent
    /\ \A p \in Procs :
          LET c == call[p]
              h == hist[c.key]
          IN  /\ (c.pc = "set" /\ h.kind = "cached" /\ h.by = p /\ ~h.complete /\ h.v # Null)
                 => /\ c.expirationTime = [num |-> h.ttl, den |-> 1]
                    /\ (c.options.duration = Undefined
                        /\ calc.cfg.cacheDurationInMs = Undefined) => h.ttl = 300
              /\ (c.pc \notin {"idle", "get"} /\ NotBypassed(c) /\ c.origin0.kind = "expired")
                 => c.value = Null /\ c.retrieves = 1

\* C7: a call made after a value stored for the default 300 seconds expired
\* has retrieved again
C7_Witness ==
    \E p \in Procs :
        /\ call[p].pc = "done"
        /\ NotBypassed(call[p])
        /\ call[p].origin0.kind = "expired"
        /\ call[p].origin0.v # Null
        /\ call[p].origin0.ttl = 300
        /\ call[p].retrieves = 1

\* C10, as amended: a call with bypassCache=true sends no read and invokes its
\* retrieve once whatever the key holds; when it has returned, the store holds
\* the fresh result unless that is null and saveNullResponse is false, in
\* which case nothing is written; a later call without bypass, made while the
\* result is undisturbed, returns the result a bypassing call wrote.
C10_BypassRefreshes ==
    \A p \in Procs :
        LET c == call[p]
        IN  /\ (c.pc # "idle" /\ ~NotBypassed(c))
               => /\ \A i \in DOMAIN c.cmds : c.cmds[i].op # "GET"
                  /\ c.value = Undefined
                  /\ c.retrieves = 1
            /\ (/\ c.pc = "done" /\ ~NotBypassed(c) /\ c.outcome.kind = "return"
                /\ ~c.touched /\ (c.fetchedValue # Null \/ NullsSaved(c)))
               => store[c.key].val = Str(StoredForm(c.fetchedValue))
            /\ (/\ c.pc = "done" /\ NotBypassed(c)
                /\ c.origin0.kind = "cached" /\ c.origin0.bypass
                /\ (c.origin0.v # Null \/ NullsSaved(c)))
               => c.outcome = Returned(c.origin0.v) /\ c.retrieves = 0

\* C10: a bypassing call on a key that held a cached null has stored the number
\* 0 it retrieved
C10_Witness ==
    \E p \in Procs :
        /\ call[p].pc = "done" /\ ~NotBypassed(call[p])
        /\ call[p].origin0.kind = "cached" /\ call[p].origin0.v = Null
        /\ call[p].outcome = Returned(Num(0))
        /\ ~call[p].touched
        /\ store[call[p].key].val = Str(<<"0">>)

\* C10 as stated: after every bypassing call that returned, the store holds
\* the fresh result
C10_AsStated ==
    \A p \in Procs :
        LET c == call[p]
        IN  (c.pc = "done" /\ ~NotBypassed(c) /\ c.outcome.kind = "return" /\ ~c.touched)
            => store[c.key].val = Str(StoredForm(c.fetchedValue))

\* C11: a hit with renewCacheDurationOnAccess whose EXPIRE failed ends as the
\* hit without renewal does: it returns null for the sentinel and the decoded
\* value for a stored JSON text, with no error from the EXPIRE, and its
\* retrieve is not invoked.
C11_ExpireFailureSwallowed ==
    \A p \in Procs :
        LET c == call[p]
        IN  (/\ c.pc = "done" /\ c.path = "hit" /\ ~c.replyOk
             /\ \E i \in DOMAIN c.cmds : c.cmds[i].op = "EXPIRE")
            => /\ c.retrieves = 0
               /\ c.outcome # Thrown("ERR")
               /\ c.value = Str(NULL_SYMBOL) => c.outcome = Returned(Null)
               /\ (c.value # Str(NULL_SYMBOL) /\ JsonParse(c.value.s).ok)
                     => c.outcome = Returned(JsonParse(c.value.s).v)
               /\ (c.origin0.kind = "cached" /\ (c.origin0.v # Null \/ NullsSaved(c)))
                     => c.outcome = Returned(c.origin0.v)

\* C11: a renewing hit on a cached number 0 has returned it although its
\* EXPIRE failed
C11_Witness ==
    \E p \in Procs :
        /\ call[p].pc = "done" /\ call[p].path = "hit" /\ ~call[p].replyOk
        /\ call[p].cmds = <<Cmd("GET", call[p].key), Cmd("EXPIRE", call[p].key)>>
        /\ call[p].origin0.kind = "cached" /\ call[p].origin0.v = Num(0)
        /\ call[p].outcome = Returned(Num(0))
        /\ call[p].retrieves = 0

\* C20: the steps of a call are in order: its retrieve is invoked only when
\* the reply of the read of the computed key is there (unless the cache is
\* bypassed), and a write is sent only when its retrieve has resolved, as the
\* last command of the call.
C20_StepsInOrder ==
    \A p \in Procs :
        LET c == call[p]
        IN  /\ c.pc = "get" => c.retrieves = 0 /\ c.cmds = <<Cmd("GET", c.key)>>
            /\ (c.retrieves >= 1 /\ NotBypassed(c))
               => /\ c.pc # "get"
                  /\ c.cmds # <<>> /\ c.cmds[1] = Cmd("GET", c.key)
                  /\ c.value # Undefined
            /\ c.pc = "retrieve" => OnlyReads(c) /\ c.fetchedValue = Undefined
            /\ \A i \in DOMAIN c.cmds :
                  c.cmds[i].op = "SET"
                  => /\ c.retrieves = 1
                     /\ c.fetchedValue # Undefined
                     /\ i = Len(c.cmds)
                     /\ c.pc \in {"set", "done"}

\* C20: a call has read, then retrieved, then written
C20_Witness ==
    \E p \in Procs :
        /\ call[p].pc = "done"
        /\ NotBypassed(call[p])
        /\ call[p].cmds = <<Cmd("GET", call[p].key), Cmd("SET", call[p].key)>>
        /\ call[p].value = Null
        /\ call[p].retrieves = 1
        /\ call[p].outcome = Returned(Num(0))

\* The commands of a call that have this name
Sent(c, op) == { i \in DOMAIN c.cmds : c.cmds[i].op = op }

\* C21: a call sends at most one GET, at most one SET and at most one EXPIRE,
\* never both a SET and an EXPIRE, and all of them for the computed key.
C21_CommandsOfACall ==
    \A p \in Procs :
        LET c == call[p]
        IN  /\ Cardinality(Sent(c, "GET")) <= 1
            /\ Cardinality(Sent(c, "SET")) <= 1
            /\ Cardinality(Sent(c, "EXPIRE")) <= 1
            /\ Sent(c, "SET") = {} \/ Sent(c, "EXPIRE") = {}
            /\ \A i \in DOMAIN c.cmds :
                  /\ c.cmds[i].op \in {"GET", "SET", "EXPIRE"}
                  /\ c.cmds[i].key = computeCacheKey(client, c.input)

\* C21: a call has ended after one GET and one EXPIRE that failed
C21_Witness ==
    \E p \in Procs :
        /\ call[p].pc = "done"
        /\ ~call[p].replyOk
        /\ Cardinality(Sent(call[p], "GET")) = 1
        /\ Cardinality(Sent(call[p], "EXPIRE")) = 1
        /\ call[p].key = computeCacheKey(client, call[p].input)

\* C22 as stated: a hit on a stored string other than the sentinel returns
\* what getValue without raw mode returns for that string, and raises no
\* error, also when the string is not a JSON text.  The code's hit calls
\* JSON.parse without a catch.
C22_AsStated ==
    \A p \in Procs :
        LET c == call[p]
        IN  (c.pc = "done" /\ c.path = "hit" /\ c.value # Str(NULL_SYMBOL))
            => c.outcome = getValueResult(c.value, Undefined)

\* The call found its key absent, retrieved v, and wrote with nothing else
\* changing the key meanwhile
WroteOnMiss(c, v) ==
    /\ c.pc \in {"set", "done"}
    /\ NotBypassed(c) /\ c.value = Null
    /\ c.fetchedValue = v
    /\ c.replyOk /\ ~c.touched

\* C23, as amended: on a miss with a non-null result v the string written to
\* the computed key is JSON.stringify(v) for every v: the same string
\* setValue stores when v is not a string, and v inside double quotes, which
\* setValue does not add, when v is a string; the call returns v.
C23_WrittenString ==
    \A p \in Procs :
        LET c == call[p]
        IN  \A v \in RetrieveResults \ {Null} :
              WroteOnMiss(c, v)
              => /\ store[c.key].val = Str(JsonStringify(v))
                 /\ v.t # "str" => store[c.key].val = Str(setValueString(v))
                 /\ v.t = "str" => /\ store[c.key].val = Str(<<QUOTE>> \o v.s \o <<QUOTE>>)
                                   /\ store[c.key].val # Str(setValueString(v))
                 /\ c.pc = "done" => c.outcome = Returned(v)

\* C23: a call has retrieved a string on a miss and stored it in quotes
C23_Witness ==
    \E p \in Procs :
        /\ WroteOnMiss(call[p], Str(NULL_SYMBOL))
        /\ call[p].pc = "done"
        /\ store[call[p].key].val = Str(<<QUOTE>> \o NULL_SYMBOL \o <<QUOTE>>)
        /\ call[p].outcome = Returned(Str(NULL_SYMBOL))

\* C23 as stated: the string written is the one setValue would store for v
C23_AsStated ==
    \A p \in Procs :
        LET c == call[p]
        IN  \A v \in RetrieveResults \ {Null} :
              WroteOnMiss(c, v)
              => /\ store[c.key].val = Str(setValueString(v))
                 /\ c.pc = "done" => c.outcome = Returned(v)

C26_RenewOnHit ==
    /\ [](\A p \in Procs :
            LET c == call[p]
            IN  /\ (Sent(c, "EXPIRE") # {})
                   <=> (c.path = "hit" /\ Truthy(c.options.renewCacheDurationOnAccess))
                /\ c.path = "hit" => NotBypassed(c) /\ c.value.t = "str")
    /\ [][\A p \in Procs :
            LET c == call[p]
                k == c.key
                secs == c.expirationTime
            IN  (c.pc = "get" /\ call'[p].pc # "get")
                => IF call'[p].path = "hit" /\ Truthy(c.options.renewCacheDurationOnAccess)
                   THEN /\ call'[p].pc = "expire"
                        /\ call'[p].replyOk = IsInteger(secs)
                        /\ store' = IF ~IsInteger(secs) \/ store[k].val = Null THEN store
                                    ELSE IF secs.num > 0
                                    THEN [store EXCEPT ![k].ttl = secs.num]
                                    ELSE [store EXCEPT ![k] = Absent]
                   ELSE store' = store]_vars

\* C26: a hit with the option has set the TTL of its key to its expiration
\* seconds
C26_Witness ==
    \E p \in Procs :
        /\ call[p].pc = "expire" /\ call[p].replyOk
        /\ Truthy(call[p].options.renewCacheDurationOnAccess)
        /\ call[p].expirationTime.num > 0
        /\ store[call[p].key].val = call[p].value
        /\ store[call[p].key].ttl = call[p].expirationTime.num

\* C27: a call with saveNullResponse=false that reads the sentinel invokes its
\* retrieve; a non-null result replaces the sentinel and is returned, and
\* later calls with default options return it.
C27_SentinelOverwritten ==
    \A p \in Procs :
        LET c == call[p]
        IN  /\ (/\ c.pc \notin {"idle", "get"} /\ NotBypassed(c) /\ ~NullsSaved(c)
                /\ c.value = Str(NULL_SYMBOL))
               => /\ c.path = "retrieve" /\ c.retrieves = 1
                  /\ \A v \in RetrieveResults \ {Null} :
                        (c.pc = "done" /\ c.fetchedValue = v /\ c.replyOk /\ ~c.touched)
                        => /\ c.outcome = Returned(v)
                           /\ store[c.key].val = Str(JsonStringify(v))
            /\ (/\ c.pc = "done" /\ c.options = NoOptions
                /\ c.origin0.kind = "cached" /\ c.origin0.v \notin {Null, Undefined}
                /\ ~c.origin0.miss /\ ~c.origin0.bypass)
               => c.outcome = Returned(c.origin0.v) /\ c.retrieves = 0

\* C27: a call with default options has been served the value that replaced
\* a value found in the store by the call that wrote it
C27_Witness ==
    \E p \in Procs :
        /\ call[p].pc = "done" /\ call[p].options = NoOptions
        /\ call[p].origin0.kind = "cached" /\ call[p].origin0.v = Num(0)
        /\ ~call[p].origin0.miss /\ ~call[p].origin0.bypass
        /\ call[p].outcome = Returned(Num(0))
        /\ call[p].retrieves = 0

\* C28 as stated: an absent key is a miss; the sentinel is a null hit unless
\* saveNullResponse=false, and then a miss; every other stored string, the
\* empty string too, is a hit and retrieve is not invoked.  The code's test
\* `value && ...` takes the empty string for a miss.
C28_AsStated ==
    \A p \in Procs :
        LET c == call[p]
        IN  (c.pc \notin {"idle", "get"} /\ NotBypassed(c))
            => IF c.value = Null THEN c.path = "retrieve"
               ELSE IF c.value = Str(NULL_SYMBOL)
               THEN c.path = (IF NullsSaved(c) THEN "hit" ELSE "retrieve")
               ELSE c.path = "hit" /\ c.retrieves = 0

\* C30: an entry that getValueOrRetrieve wrote is the sentinel exactly when
\* the retrieve returned null: what is written for a non-null result, the
\* string NULL_SYMBOL included, is another string and is not read back as
\* null.
C30_SentinelOnlyForNull ==
    /\ \A k \in AllKeys :
          hist[k].kind = "cached"
          => (store[k].val = Str(NULL_SYMBOL) <=> hist[k].v = Null)
    /\ \A v \in RetrieveResults \ {Null} : JsonStringify(v) # NULL_SYMBOL
    /\ \A p \in Procs :
          LET c == call[p]
          IN  (/\ c.pc = "done" /\ NotBypassed(c) /\ c.path = "hit"
               /\ c.origin0.kind = "cached" /\ c.origin0.v \notin {Null, Undefined})
              => c.outcome = Returned(c.origin0.v) /\ c.outcome # Returned(Null)

\* C30: the string NULL_SYMBOL that a retrieve returned is cached, not as the
\* sentinel, and a call has read it back
C30_Witness ==
    \E p \in Procs :
        /\ call[p].pc = "done" /\ NotBypassed(call[p]) /\ call[p].path = "hit"
        /\ call[p].origin0.kind = "cached" /\ call[p].origin0.v = Str(NULL_SYMBOL)
        /\ call[p].value = Str(JsonQuote(NULL_SYMBOL))
        /\ call[p].outcome = Returned(Str(NULL_SYMBOL))

\* The call's retrieve has returned null with saveNullResponse=false
NullNotSaved(c) ==
    /\ c.pc = "done" /\ c.raised = ""
    /\ c.fetchedValue = Null /\ ~NullsSaved(c)

\* C31: a call whose retrieve returns null with saveNullResponse=false sends
\* no write and changes nothing in the store: the sentinel it was forced
\* past, or the value it bypassed, is still at the key when the call has
\* ended, and calls with default options are served it.
C31_NullLeavesStore ==
    /\ [][\A p \in Procs :
            (call[p].pc = "retrieve" /\ NullNotSaved(call'[p]))
            => store' = store /\ hist' = hist]_vars
    /\ [](\A p \in Procs :
            LET c == call[p]
            IN  /\ NullNotSaved(c)
                   => /\ c.outcome = Returned(Null)
                      /\ Sent(c, "SET") = {} /\ Sent(c, "EXPIRE") = {}
                      /\ (NotBypassed(c) /\ ~c.touched) => store[c.key].val = c.value
                      /\ (c.origin0.kind = "cached" /\ ~c.touched)
                         => /\ hist[c.key].kind = "cached" /\ hist[c.key].v = c.origin0.v
                            /\ store[c.key].val = Str(StoredForm(c.origin0.v))
                /\ (/\ c.pc = "done" /\ c.options = NoOptions
                    /\ c.origin0.kind = "cached" /\ c.origin0.v # Undefined)
                   => c.outcome = Returned(c.origin0.v) /\ c.retrieves = 0)

\* C31: a call that bypassed a cached value and retrieved null without saving
\* it has ended, and the value is still cached
C31_Witness ==
    \E p \in Procs :
        /\ NullNotSaved(call[p])
        /\ ~NotBypassed(call[p])
        /\ call[p].origin0.kind = "cached" /\ call[p].origin0.v = Num(0)
        /\ hist[call[p].key].kind = "cached" /\ hist[call[p].key].v = Num(0)
        /\ store[call[p].key].val = Str(StoredForm(Num(0)))

(***************************************************************************)
(* getValueOrRetrieve: two callers                                         *)
(***************************************************************************)
Wrote(c) ==
    c.replyOk /\ \E i \in DOMAIN c.cmds : c.cmds[i].op = "SET"

\* Both callers' calls at one key found it absent, retrieved and wrote
BothMissedAndWrote ==
    /\ \A p \in Procs : call[p].pc = "done" /\ call[p].value = Null /\ Wrote(call[p])
    /\ \A p, q \in Procs : call[p].key = call[q].key

\* C5: when two calls at one key have both found it absent, both have invoked
\* their retrieve and written, the store holds the encoding of the result
\* whose write was applied last.
C5_LastWriteWins ==
    BothMissedAndWrote =>
        /\ \A p \in Procs : call[p].retrieves = 1
        /\ \A k \in { call[p].key : p \in Procs } :
              /\ hist[k].kind = "cached"
              /\ hist[k].by \in Procs
              /\ store[k].val = Str(StoredForm(call[hist[k].by].fetchedValue))

\* C5: both calls missed and wrote different results, and the first caller's
\* write was applied last
C5_Witness ==
    /\ BothMissedAndWrote
    /\ \E p, q \in Procs : call[p].fetchedValue # call[q].fetchedValue
    /\ hist[call[1].key].by = 1
    /\ store[call[1].key].val = Str(StoredForm(call[1].fetchedValue))

(***************************************************************************)
(* The direct accessors                                                    *)
(***************************************************************************)
\* The last call was getValue on a connected client without raw mode, and the
\* key held what setValue had stored for a value, undisturbed
ReadAfterSet ==
    /\ calc.fn = "getValue"
    /\ calc.arg.connected
    /\ ~Truthy(calc.arg.raw)
    /\ calc.seen.kind = "set"

\* C12: getValue without raw mode on a connected client, on a key that holds
\* what setValue stored for a JSON value v that is not a string, undisturbed,
\* returns a value equal to v.
C12_NonStringRoundTrip ==
    (ReadAfterSet /\ calc.seen.v.t # "str") => calc.out = Returned(calc.seen.v)

\* C12: an object has been stored and read back
C12_Witness ==
    /\ ReadAfterSet
    /\ calc.seen.v = Obj(<< <<<<"k">>, Null>> >>)
    /\ calc.out = Returned(Obj(<< <<<<"k">>, Null>> >>))
    /\ store[calc.arg.key].val = Str(<<"{", QUOTE, "k", QUOTE, ":", "n", "u", "l", "l", "}">>)

\* A string of digits without a leading zero
LooksLikeNumber(s) ==
    /\ s # <<>>
    /\ \A i \in DOMAIN s : s[i] \in {"0", "1", "2", "3", "4", "5", "6", "7", "8", "9"}
    /\ Len(s) = 1 \/ s[1] # "0"

LooksLikeBoolean(s) == s = <<"t", "r", "u", "e">> \/ s = <<"f", "a", "l", "s", "e">>

\* C13, as amended: setValue(key, s) for a string s followed by getValue(key)
\* without raw mode returns s itself whenever s is not a JSON text, and the
\* value of the JSON text otherwise: the number or boolean for a number-looking
\* or boolean-looking s, and also null for "null", the inner string for a
\* quoted string, an array or an object.
C13_StringReadBack ==
    (ReadAfterSet /\ calc.seen.v.t = "str") =>
        LET s == calc.seen.v.s
        IN  /\ LooksLikeNumber(s) => calc.out = Returned(Num(DigitsValue(s)))
            /\ LooksLikeBoolean(s) => calc.out = Returned(Bool(s = <<"t", "r", "u", "e">>))
            /\ s = <<"n", "u", "l", "l">> => calc.out = Returned(Null)
            /\ s = <<QUOTE, "x", QUOTE>> => calc.out = Returned(Str(<<"x">>))
            /\ s \in {<<"H", "i">>, <<>>, NULL_SYMBOL} => calc.out = Returned(Str(s))
            /\ JsonParse(s).ok => calc.out = Returned(JsonParse(s).v)
            /\ ~JsonParse(s).ok => calc.out = Returned(Str(s))

\* C13: the string "10" has been stored and read back as the number 10
C13_Witness ==
    /\ ReadAfterSet
    /\ calc.seen.v = Str(<<"1", "0">>)
    /\ calc.out = Returned(Num(10))

\* C13 as stated: s itself comes back whenever s is not number-looking or
\* boolean-looking
C13_AsStated ==
    (ReadAfterSet /\ calc.seen.v.t = "str") =>
        LET s == calc.seen.v.s
        IN  IF LooksLikeNumber(s) THEN calc.out = Returned(Num(DigitsValue(s)))
            ELSE IF LooksLikeBoolean(s) THEN calc.out = Returned(Bool(s = <<"t", "r", "u", "e">>))
            ELSE calc.out = Returned(Str(s))

\* What the key held when the last call read it
StoredWhenRead ==
    IF calc.seen.kind = "set" THEN Str(setValueString(calc.seen.v)) ELSE Null

\* C14: getValue on a connected client does not raise: it returns null for an
\* absent key, the stored string in raw mode, the parsed value of a stored
\* JSON text, and the stored string when it is not a JSON text.
C14_GetValueNeverRaises ==
    (calc.fn = "getValue" /\ calc.arg.connected) =>
        /\ calc.out.kind = "return"
        /\ StoredWhenRead = Null => calc.out.v = Null
        /\ StoredWhenRead # Null =>
              IF Truthy(calc.arg.raw) THEN calc.out.v = StoredWhenRead
              ELSE IF JsonParse(StoredWhenRead.s).ok
                   THEN calc.out.v = JsonParse(StoredWhenRead.s).v
                   ELSE calc.out.v = StoredWhenRead

\* C14: a stored string that is not a JSON text has been read without raw mode
C14_Witness ==
    /\ ReadAfterSet
    /\ store[calc.arg.key].val = Str(<<"H", "i">>)
    /\ calc.out = Returned(Str(<<"H", "i">>))

\* C15: getValue on a client that is not connected returns null and sends no
\* GET, whatever the key holds.
C15_NotConnectedReadsNull ==
    (calc.fn = "getValue" /\ ~calc.arg.connected) =>
        /\ calc.out = Returned(Null)
        /\ calc.cmds = <<>>

\* C15: a key that holds a value has been read as null on a closed client
C15_Witness ==
    /\ calc.fn = "getValue"
    /\ ~calc.arg.connected
    /\ ~client.connected
    /\ store[calc.arg.key].val # Null
    /\ calc.out = Returned(Null)

\* C16: with no TTL involved, exists(key) is false before the first write, true
\* after a setValue that no del followed, and false after del.
C16_ExistsFollowsWrites ==
    (calc.fn = "exists" /\ calc.seen.kind \in {"none", "set", "deleted"} /\ calc.seen.ttl = 0) =>
        calc.out = Returned(Bool(calc.seen.kind = "set"))

\* C16: exists has answered false for a key that was written and then deleted
C16_Witness ==
    /\ calc.fn = "exists"
    /\ calc.seen.kind = "deleted"
    /\ calc.seen.v # Undefined
    /\ calc.out = Returned(Bool(FALSE))

\* What getValue without raw mode returns for a stored value v: v itself, but
\* the value of the JSON text for a string that is one (C13)
ReadBack(v) ==
    IF v.t = "str" /\ JsonParse(v.s).ok THEN JsonParse(v.s).v ELSE v

ExpectedEntry(before, issued, k) ==
    LET on == SelectSeq(issued, LAMBDA cmd : cmd.key = k)
    IN  IF on = <<>> THEN before[k]
        ELSE IF on[Len(on)].op = "SET"
             THEN [val |-> Str(on[Len(on)].val), ttl |-> 0]
             ELSE Absent

\* C18: when the callback has raised after issuing writes through the
\* transaction client, transaction ends with the callback's error, nothing is
\* left queued, and the store is as it was when the transaction began.
C18_AbortDropsWrites ==
    \A p \in Procs :
        LET c == call[p]
        IN  (c.pc = "done" /\ c.raised # "")
            => /\ c.outcome = Thrown(c.raised)
               /\ c.conn = NoMulti
               /\ store = c.store0

\* C18: a callback has raised after setting two keys that were absent, and
\* they are still absent
C18_Witness ==
    \E p \in Procs :
        /\ call[p].pc = "done"
        /\ call[p].raised = "E1"
        /\ call[p].outcome = Thrown("E1")
        /\ Len(call[p].issued) = MaxTxWrites
        /\ \A i \in DOMAIN call[p].issued :
              /\ call[p].issued[i].op = "SET"
              /\ store[call[p].issued[i].key] = Absent
        /\ \E i, j \in DOMAIN call[p].issued : call[p].issued[i].key # call[p].issued[j].key

\* C19: while the callback runs none of its writes is in the store; once EXEC
\* has been sent after the callback's normal return all of them are, applied
\* in order; so the store, and every read of the other client, shows the
\* writes of a transaction all or not at all.
C19_CommitIsAtomic ==
    /\ \A p \in Procs :
          LET c == call[p]
          IN  /\ c.pc = "callback" => store = c.store0 /\ c.conn.queue = c.issued
              /\ (c.pc \in {"exec", "done"} /\ c.raised = "")
                 => \A k \in AllKeys : store[k] = ExpectedEntry(c.store0, c.issued, k)
    /\ (calc.fn = "getValue" /\ calc.arg.connected)
       => calc.out = IF calc.seen.kind = "tx"
                     THEN Returned(ReadBack(calc.seen.v)) ELSE Returned(Null)
    /\ (calc.fn = "exists") => calc.out = Returned(Bool(calc.seen.kind = "tx"))

\* C19: a callback has set two keys and returned, and both writes are in the
\* store
C19_Witness ==
    \E p \in Procs :
        /\ call[p].pc = "done"
        /\ call[p].outcome = Returned(Undefined)
        /\ Len(call[p].issued) = MaxTxWrites
        /\ \A i \in DOMAIN call[p].issued :
              /\ call[p].issued[i].op = "SET"
              /\ call[p].store0[call[p].issued[i].key] = Absent
              /\ store[call[p].issued[i].key].val = Str(call[p].issued[i].val)
        /\ \E i, j \in DOMAIN call[p].issued : call[p].issued[i].key # call[p].issued[j].key

\* C29 as stated: when transaction has settled, by commit or by abort, its
\* secondary connection is closed.  The code never closes tempClient.
C29_AsStated ==
    \A p \in Procs :
        call[p].pc = "done" => ~IsConnected(call[p].tempClient)

\* C32 as stated: the client the callback is given derives the same key and
\* the same default TTL for an input as the client transaction was called
\* on.  The code creates it from the url alone: no key prefix and the default
\* duration.
C32_AsStated ==
    \A p \in Procs :
        call[p].pc = "callback"
        => /\ \A input \in KeyInputs :
                 computeCacheKey(call[p].tempClient, input) = computeCacheKey(client, input)
           /\ expirationTime(call[p].tempClient, NoOptions) = expirationTime(client, NoOptions)

(***************************************************************************)
(* The TTL and the key                                                     *)
(***************************************************************************)
\* The fraction q is the number n divided by d
IsQuotient(q, n, d) == q.den > 0 /\ q.num * d = n * q.den

\* The TTL in seconds the statement gives for a duration that is present
StatedSeconds(q, duration) ==
    IF duration.t = "num" THEN IsQuotient(q, duration.n, 1000)
    ELSE CASE duration.unit = "MILLISECONDS" -> IsQuotient(q, duration.value, 1000)
           [] duration.unit = "SECONDS"      -> IsQuotient(q, duration.value, 1)
           [] duration.unit = "MINUTES"      -> IsQuotient(q, 60 * duration.value, 1)
           [] duration.unit = "HOURS"        -> IsQuotient(q, 3600 * duration.value, 1)
           [] OTHER                          -> TRUE

\* C8, as amended: the TTL in seconds is n/1000 for a raw number n other than 0,
\* v/1000, v, 60v, 3600v for a value v in MILLISECONDS, SECONDS, MINUTES, HOURS;
\* for an absent duration or the raw number 0 it is the configured
\* cacheDurationInMs / 1000, and 300 when that is not configured or is 0.
C8_ExpirationSeconds ==
    calc.fn = "expirationTime" =>
        IF calc.arg = Undefined \/ calc.arg = Num(0)
        THEN IF calc.cfg.cacheDurationInMs \in {Undefined, Num(0)}
             THEN calc.out = Divide(300, 1)
             ELSE IsQuotient(calc.out, calc.cfg.cacheDurationInMs.n, 1000)
        ELSE StatedSeconds(calc.out, calc.arg)

\* C8: a TTL has been computed from a duration with a unit that is not a whole
\* number of seconds
C8_Witness ==
    /\ calc.fn = "expirationTime"
    /\ calc.arg = Duration(MaxDurationValue, "MILLISECONDS")
    /\ calc.out = [num |-> MaxDurationValue, den |-> 1000]

\* C8 as stated: n/1000 for every raw number n, and the configured
\* cacheDurationInMs / 1000 for an absent duration whenever one is configured
C8_AsStated ==
    calc.fn = "expirationTime" =>
        IF calc.arg = Undefined
        THEN IF calc.cfg.cacheDurationInMs = Undefined
             THEN calc.out = Divide(300, 1)
             ELSE IsQuotient(calc.out, calc.cfg.cacheDurationInMs.n, 1000)
        ELSE StatedSeconds(calc.out, calc.arg)

\* C25 as stated: a duration of v DAYS gives a TTL of v * 86400 seconds.  The
\* code's DAYS case multiplies by HOURS.
C25_AsStated ==
    (calc.fn = "expirationTime" /\ calc.arg.t = "duration" /\ calc.arg.unit = "DAYS")
    => IsQuotient(calc.out, 86400 * calc.arg.value, 1)

\* The prefix the client was constructed with
ConfiguredPrefix ==
    IF calc.cfg.keyPrefix.t = "str" THEN calc.cfg.keyPrefix.s ELSE <<>>

\* '_' + e1 + '_' + e2 + ...
EachAfterSeparator(a) ==
    Flatten([i \in 1..Len(a) |-> <<"_">> \o TemplateString(a[i])])

\* e1 + '_' + e2 + ...
JoinedWithSeparator(a) ==
    IF a = <<>> THEN <<>>
    ELSE TemplateString(a[1])
         \o Flatten([i \in 1..(Len(a) - 1) |-> <<"_">> \o TemplateString(a[i + 1])])

\* C9, as amended: the key of a string s is prefix + s; the key of a sequence is
\* the prefix followed by '_' + e for each element e in order, so the separator
\* also stands between the prefix and the first element; the same input gives
\* the same key.
C9_ComputedKey ==
    calc.fn = "computeCacheKey" =>
        /\ calc.arg.t = "str" => calc.out = ConfiguredPrefix \o calc.arg.s
        /\ calc.arg.t = "arr" => calc.out = ConfiguredPrefix \o EachAfterSeparator(calc.arg.a)
        /\ calc.out = computeCacheKey(client, calc.arg)

\* C9: the key of a sequence of several elements has been computed under a prefix
C9_Witness ==
    /\ calc.fn = "computeCacheKey"
    /\ calc.arg = Arr(<<Str(<<"a">>), Num(12), Null>>)
    /\ calc.cfg.keyPrefix = Str(<<"p">>)
    /\ calc.out = <<"p", "_", "a", "_", "1", "2", "_", "n", "u", "l", "l">>

\* C9 as stated: the key of a sequence is prefix + e1 + '_' + e2 + ...
C9_AsStated ==
    calc.fn = "computeCacheKey" =>
        /\ calc.arg.t = "str" => calc.out = ConfiguredPrefix \o calc.arg.s
        /\ calc.arg.t = "arr" => calc.out = ConfiguredPrefix \o JoinedWithSeparator(calc.arg.a)

=============================================================================
